---- MODULE Spec2Model ----
(***************************************************************************)
(* The real-time pose-stream core of the PoseDetection React components.   *)
(*                                                                         *)
(* Two components of the repository are modelled:                          *)
(*   "camera"  - client/src/components/camera/PoseDetection.tsx            *)
(*   "part002" - the PoseDetection component PosePage imports              *)
(*               (src/unnamed/part_002)                                    *)
(* and, for the session records they end in, the Express server of        *)
(* server/auth.ts (authMiddleware, registerRoutes).                        *)
(*                                                                         *)
(* Units.  Confidences (kp.score, 0.0 .. 1.0) are integers in percent.     *)
(* Coordinates are integers in tenths of a pixel, so that the blend with   *)
(* the smoothing factor 0.7 = 7/10 is exact; the estimator delivers whole  *)
(* pixels (multiples of ten).  JavaScript computes the blend in binary     *)
(* floating point; the model computes it exactly.                          *)
(*                                                                         *)
(* JavaScript arrays are 0-based, sequences 1-based: keypoints[i] is       *)
(* pose[i + 1].                                                            *)
(***************************************************************************)
EXTENDS Integers, Sequences, FiniteSets, Bags, TLC

VARIABLES
    component,        \* which PoseDetection component is mounted
    isActive,         \* the isActive prop
    repCount,         \* useState(0): the committed React state
    pendingRep,       \* value given to setRepCount and not rendered yet
    previousPoseRef,  \* useRef<Pose | null>(null).current
    smoothingFactor,  \* smoothingFactorRef.current, in tenths
    effects,          \* the bag of effect closures that can still run
    frame,            \* what the most recent processed frame did
    mon,              \* history of the frames fed to the running session
    server            \* the Express server: its storage and the request it serves

vars == <<component, isActive, repCount, pendingRep, previousPoseRef,
          smoothingFactor, effects, frame, mon, server>>

----------------------------------------------------------------------------
(* Bounds of the model *)

MaxReps == 2
MaxEffects == 2
MaxSessions == 2
MaxRequests == 2

(* Program constants *)

AlphaDen == 10
DefaultSmoothing == 7
SmoothMinScore == 30
WristMinScore == 50
LeftWrist == 9
RightWrist == 10
MinLen == 11

(* Configuration the spec's scenarios give the rep counter *)

UpperThreshold == 80
LowerThreshold == 20

----------------------------------------------------------------------------
(* Values *)

NoPose == << >>
NoRep == -1
NoScore == -1

Kp(x, y, s) == [x |-> x, y |-> y, score |-> s]

\* A pose of n keypoints: the two wrists, and one keypoint for every other joint.
MkPose(n, body, lw, rw) ==
    [i \in 1..n |-> IF i = LeftWrist + 1 THEN lw
                    ELSE IF i = RightWrist + 1 THEN rw
                    ELSE body]

RECURSIVE SumScore(_, _)
SumScore(kps, n) == IF n = 0 THEN 0 ELSE kps[n].score + SumScore(kps, n - 1)

\* Math.round(x) for x = num / den >= 0: the nearest integer, halves upwards.
MathRound(num, den) == (2 * num + den) \div (2 * den)

----------------------------------------------------------------------------
(* smoothPoseMovement                                                      *)

Blend(prev, cur, alpha) == (prev * alpha + cur * (AlphaDen - alpha)) \div AlphaDen

\* mutant: the confidence gate admits a confidence of exactly 0.3
smoothKeypoint_atThreshold(kp, previousPose, index, alpha) ==
    IF index <= Len(previousPose)
       /\ kp.score >= SmoothMinScore
       /\ previousPose[index].score >= SmoothMinScore
    THEN [kp EXCEPT !.x = Blend(previousPose[index].x, kp.x, alpha),
                    !.y = Blend(previousPose[index].y, kp.y, alpha)]
    ELSE kp

\* mutant: the blended keypoint spreads prevKp instead of kp
smoothKeypoint_spreadsPrev(kp, previousPose, index, alpha) ==
    IF index <= Len(previousPose)
       /\ kp.score > SmoothMinScore
       /\ previousPose[index].score > SmoothMinScore
    THEN [previousPose[index] EXCEPT
             !.x = Blend(previousPose[index].x, kp.x, alpha),
             !.y = Blend(previousPose[index].y, kp.y, alpha)]
    ELSE kp

smoothKeypoint(kp, previousPose, index, alpha) ==
    IF index <= Len(previousPose)
       /\ kp.score > SmoothMinScore
       /\ previousPose[index].score > SmoothMinScore
    THEN [kp EXCEPT !.x = Blend(previousPose[index].x, kp.x, alpha),
                    !.y = Blend(previousPose[index].y, kp.y, alpha)]
    ELSE kp

\* mutant: without a previous pose the first frame is blended with the origin
smoothPoseMovement_blendsFirst(currentPose, previousPose, alpha) ==
    IF previousPose = NoPose
    THEN [index \in 1..Len(currentPose) |->
             [currentPose[index] EXCEPT !.x = Blend(0, @, alpha),
                                        !.y = Blend(0, @, alpha)]]
    ELSE [index \in 1..Len(currentPose) |->
             smoothKeypoint(currentPose[index], previousPose, index, alpha)]

smoothPoseMovement(currentPose, previousPose, alpha) ==
    IF previousPose = NoPose THEN currentPose
    ELSE [index \in 1..Len(currentPose) |->
             smoothKeypoint(currentPose[index], previousPose, index, alpha)]

(* postureScore of detect                                                  *)

\* mutant: the mean is taken over the keypoints that were detected at all
postureScore_ofDetected(currentPose) ==
    LET detected == {i \in 1..Len(currentPose) : currentPose[i].score > 0}
    IN  IF detected = {} THEN 0
        ELSE MathRound(SumScore(currentPose, Len(currentPose)), Cardinality(detected))

postureScore(currentPose) ==
    MathRound(SumScore(currentPose, Len(currentPose)), Len(currentPose))

(* the confidence gate of detectRepMovement                                *)

\* mutant: the gate tests that the wrists exist, not their confidence
wristsConfident_present(pose) ==
    /\ RightWrist + 1 <= Len(pose)
    /\ LeftWrist + 1 <= Len(pose)

wristsConfident(pose) ==
    /\ pose[RightWrist + 1].score > WristMinScore
    /\ pose[LeftWrist + 1].score > WristMinScore

avgY(pose) == (pose[RightWrist + 1].y + pose[LeftWrist + 1].y) \div 2

----------------------------------------------------------------------------
(* Poses the estimator delivers                                            *)

Body == {Kp(0, 100, 90), Kp(200, 400, 40), Kp(200, 400, 30)}

Wrist(yPx, s) == Kp(300, yPx * AlphaDen, s)

WristY == {10, 50, 90}
WristScore == {WristMinScore, 90}

\* every joint but the wrists varies; one pose has a keypoint more than the others
SmoothFamily ==
    {MkPose(MinLen, b, Wrist(50, 90), Wrist(50, 90)) : b \in Body}
    \cup {MkPose(MinLen + 1, Kp(200, 400, 40), Wrist(50, 90), Wrist(50, 90))}

\* the wrists vary: their height (both at the same height) and the left one's
\* confidence
RepFamily ==
    {MkPose(MinLen, Kp(0, 100, 90), Wrist(y, s), Wrist(y, 90)) :
        y \in WristY, s \in WristScore}

LifecyclePoses ==
    {MkPose(MinLen, b, Wrist(50, s), Wrist(50, 90)) :
        b \in {Kp(0, 100, 90), Kp(200, 400, 40)}, s \in WristScore}

\* confident poses that differ in position only
AlphaPoses ==
    {MkPose(MinLen, Kp(x, x + 100, 90), Wrist(50, 90), Wrist(50, 90)) : x \in {0, 200, 400}}

\* the poses given to the component PosePage mounts, one of them without any
\* confidence
Part002Poses ==
    LifecyclePoses \cup {MkPose(MinLen, Kp(0, 100, 0), Wrist(50, 0), Wrist(50, 0))}

\* poses without any confidence, and poses that raise one wrist's confidence
\* at a time
ScoreFamily ==
    {MkPose(MinLen, Kp(x, 100, 0), Wrist(50, 0), Wrist(50, 0)) : x \in {0, 200}}
    \cup {MkPose(MinLen, Kp(0, 100, 0), Wrist(50, 90), Wrist(50, s)) : s \in {0, 60, 90}}

RestartPoses ==
    {MkPose(MinLen, Kp(x, x + 100, 90), Wrist(50, 90), Wrist(50, 90)) : x \in {0, 200}}

AlphaChoices == {0, DefaultSmoothing, AlphaDen}

----------------------------------------------------------------------------
(* History of the session's frames (read by the properties only)           *)

NoFrame == [cur |-> NoPose, prev |-> NoPose, out |-> NoPose, posture |-> NoScore,
            repCall |-> NoRep]

NoTrack == [phase |-> "idle", cycles |-> 0]

\* record says which history a specification keeps: "trajectory" (the hysteresis
\* cycles of the wrists), "first" (the session's first pose), "zero" (whether
\* every frame so far had confidence 0 on all keypoints), "session" (what the
\* running session's own loop did first) or "none"
NoMon(record) ==
    [record |-> record, raw |-> NoTrack, smooth |-> NoTrack, conf90 |-> TRUE,
     inBand |-> TRUE, events |-> 0, first |-> NoPose, zero |-> TRUE,
     firstRaw |-> TRUE, firstRep |-> NoRep]

AllZero(pose) == \A i \in 1..Len(pose) : pose[i].score = 0

Min(a, b) == IF a < b THEN a ELSE b

\* The hysteresis cycle of spec 4.3 followed on a trajectory value v: a cycle is
\* one passage from above the upper threshold to below the lower threshold.
Track(t, v) ==
    IF v > UpperThreshold * AlphaDen THEN [t EXCEPT !.phase = "above"]
    ELSE IF v < LowerThreshold * AlphaDen
         THEN [phase |-> "below",
               cycles |-> IF t.phase = "above" THEN Min(t.cycles + 1, 2) ELSE t.cycles]
         ELSE t

InBand(v) == v > LowerThreshold * AlphaDen /\ v < UpperThreshold * AlphaDen

Observe(m, pose, out, called) ==
    IF m.record = "trajectory"
    THEN [m EXCEPT
            !.raw    = Track(@, avgY(pose)),
            !.smooth = Track(@, avgY(out)),
            !.conf90 = @ /\ pose[LeftWrist + 1].score = 90
                         /\ pose[RightWrist + 1].score = 90,
            !.inBand = @ /\ InBand(avgY(pose)) /\ InBand(avgY(out)),
            !.events = IF called THEN Min(@ + 1, MaxReps + 1) ELSE @]
    ELSE IF m.record = "first" /\ m.first = NoPose
         THEN [m EXCEPT !.first = pose]
    ELSE IF m.record = "zero"
         THEN [m EXCEPT !.zero = @ /\ AllZero(pose),
                        !.events = IF called THEN Min(@ + 1, MaxReps + 1) ELSE @]
         ELSE m

\* The first frame and the first rep of the running session: frames processed by
\* a closure that was cleaned up belong to no running session.
ObserveSession(m, e, pose, out, newCount) ==
    IF e.cleaned THEN m
    ELSE [m EXCEPT !.first = IF @ = NoPose THEN pose ELSE @,
                   !.firstRaw = IF m.first = NoPose THEN out = pose ELSE @,
                   !.firstRep = IF @ = NoRep THEN newCount ELSE @]

----------------------------------------------------------------------------
(* The effect of useEffect and the closures it creates.  effects is the bag *)
(* of the closures whose code can still run; a closure holds the repCount  *)
(* of its render, its detector, and where its asynchronous code stands:    *)
(* "load" (loadDetector awaits), "estimate" (detect awaits estimatePoses), *)
(* "raf" (an animation frame is requested), "end".                         *)

NewEffect(rep) == [rep |-> rep, pc |-> "load", detector |-> "null", cleaned |-> FALSE]

\* the function the effect returns: cancel the pending frame, dispose the detector
cleanup(e) ==
    [e EXCEPT !.pc = IF e.pc = "raf" THEN "end" ELSE e.pc,
              !.detector = IF e.detector = "live" THEN "disposed" ELSE e.detector,
              !.cleaned = TRUE]

Closures == BagToSet(effects)

\* a closure that has ended does nothing further and is dropped
Put(es, e) == IF e.pc = "end" THEN es ELSE es (+) SetToBag({e})

Replace(es, e, f) == Put(es (-) SetToBag({e}), f)

\* React runs the clean-up of the effect of the previous render, if it returned one
CleanCurrent(es) ==
    IF \E e \in BagToSet(es) : ~e.cleaned
    THEN LET e == CHOOSE c \in BagToSet(es) : ~c.cleaned IN Replace(es, e, cleanup(e))
    ELSE es

\* One render committed with its effects flushed: with changed dependencies the
\* previous effect's clean-up runs, then the effect body.
Render(active, rep) ==
    /\ isActive' = active
    /\ repCount' = rep
    /\ pendingRep' = NoRep
    /\ IF active = isActive /\ rep = repCount
       THEN effects' = effects
       ELSE IF active
            THEN /\ BagCardinality(CleanCurrent(effects)) < MaxEffects
                 /\ effects' = CleanCurrent(effects) (+) SetToBag({NewEffect(rep)})
            ELSE effects' = CleanCurrent(effects)

Committed == IF pendingRep = NoRep THEN repCount ELSE pendingRep

\* the parent changes the isActive prop (PosePage always passes true)
setActive ==
    /\ component = "camera"
    /\ Render(~isActive, Committed)
    /\ mon' = IF isActive THEN mon ELSE NoMon(mon.record)
    /\ UNCHANGED <<server, component, previousPoseRef, smoothingFactor, frame>>

\* React renders the state given to setRepCount
render ==
    /\ pendingRep # NoRep
    /\ Render(isActive, pendingRep)
    /\ UNCHANGED <<server, component, previousPoseRef, smoothingFactor, frame, mon>>

\* loadDetector: tf.ready() and createDetector() resolve, startDetection() runs
\* detect() up to its await of estimatePoses
loadDetector(e) ==
    /\ e.pc = "load"
    /\ effects' = Replace(effects, e, [e EXCEPT !.detector = "live", !.pc = "estimate"])
    /\ UNCHANGED <<server, component, isActive, repCount, pendingRep, previousPoseRef,
                   smoothingFactor, frame, mon>>

\* loadDetector: tf.ready() or createDetector() rejects, the catch logs it
loadDetectorFails(e) ==
    /\ e.pc = "load"
    /\ effects' = Replace(effects, e, [e EXCEPT !.pc = "end"])
    /\ UNCHANGED <<server, component, isActive, repCount, pendingRep, previousPoseRef,
                   smoothingFactor, frame, mon>>

\* the animation frame fires: detect() runs up to its await of estimatePoses.
\* A detector that is disposed when estimatePoses is called throws (its model is
\* gone), which ends detect; a call in flight when dispose() runs may still
\* deliver (detect, detectNoPose) or reject (estimateRejects).
animationFrame(e) ==
    /\ e.pc = "raf"
    /\ effects' = Replace(effects, e,
                          [e EXCEPT !.pc = IF e.detector = "disposed" THEN "end"
                                           ELSE "estimate"])
    /\ UNCHANGED <<server, component, isActive, repCount, pendingRep, previousPoseRef,
                   smoothingFactor, frame, mon>>

\* detectRepMovement: the new count when the frame counts a rep, else NoRep.
\* random is the outcome of Math.random() < 0.015.
detectRepMovement(pose, rep, random) ==
    IF wristsConfident(pose) /\ random THEN rep + 1 ELSE NoRep

\* the rep counting of part_002's detect: Math.random() < 0.02, no gate
countRepRandomly(pose, rep, random) ==
    IF random THEN rep + 1 ELSE NoRep

\* what a processed frame leaves behind, given the count it reported (or NoRep):
\* the callbacks' arguments, setRepCount(newCount), requestAnimationFrame(detect)
Processed(e, pose, prev, out, score, newCount) ==
    /\ newCount <= MaxReps
    /\ frame' = [cur |-> pose, prev |-> prev, out |-> out, posture |-> score,
                 repCall |-> newCount]
    /\ pendingRep' = IF newCount = NoRep THEN pendingRep ELSE newCount
    /\ mon' = IF mon.record = "session"
              THEN ObserveSession(mon, e, pose, out, newCount)
              ELSE Observe(mon, pose, out, newCount # NoRep)
    /\ effects' = Replace(effects, e, [e EXCEPT !.pc = "raf"])
    /\ UNCHANGED <<server, component, isActive, repCount, smoothingFactor>>

\* detect of camera/PoseDetection.tsx resumes with poses[0] = currentPose
detect(e, currentPose, random) ==
    /\ component = "camera"
    /\ e.pc = "estimate"
    /\ LET smoothedPose == smoothPoseMovement(currentPose, previousPoseRef, smoothingFactor)
       IN  /\ previousPoseRef' = currentPose
           /\ Processed(e, currentPose, previousPoseRef, smoothedPose,
                        postureScore(currentPose),
                        detectRepMovement(currentPose, e.rep, random))

\* detect of part_002 resumes with poses[0]
detect_part002(e, pose, random) ==
    /\ component = "part002"
    /\ e.pc = "estimate"
    /\ previousPoseRef' = previousPoseRef
    /\ Processed(e, pose, NoPose, pose, 100, countRepRandomly(pose, e.rep, random))

\* detect resumes with no pose: only the next animation frame is requested
detectNoPose(e) ==
    /\ e.pc = "estimate"
    /\ effects' = Replace(effects, e, [e EXCEPT !.pc = "raf"])
    /\ UNCHANGED <<server, component, isActive, repCount, pendingRep, previousPoseRef,
                   smoothingFactor, frame, mon>>

\* estimatePoses of a disposed detector rejects: detect ends, nothing is requested
estimateRejects(e) ==
    /\ e.pc = "estimate"
    /\ e.detector = "disposed"
    /\ effects' = Replace(effects, e, [e EXCEPT !.pc = "end"])
    /\ UNCHANGED <<server, component, isActive, repCount, pendingRep, previousPoseRef,
                   smoothingFactor, frame, mon>>

----------------------------------------------------------------------------
(* The session metrics of spec 4.4, handed to the server when a session    *)
(* ends.  Absent stands for a field that is not there (undefined, null).   *)

Absent == -1
NoTime == -1
NoType == ""

NewAggregator(exerciseType) ==
    [exerciseType |-> exerciseType, frames |-> 0, first |-> NoTime, reps |-> 0, sum |-> 0]

onFrame(a, score, repEventOccurred, timestamp) ==
    [a EXCEPT !.frames = @ + 1,
              !.first = IF a.frames = 0 THEN timestamp ELSE @,
              !.reps = IF repEventOccurred THEN @ + 1 ELSE @,
              !.sum = @ + score]

\* the output record; the spec gives accuracy no computation, it is left absent
finalize(a, timestamp) ==
    [userId |-> Absent,
     exerciseType |-> a.exerciseType,
     duration |-> IF a.frames = 0 THEN 0 ELSE timestamp - a.first,
     reps |-> a.reps,
     accuracy |-> Absent,
     postureScore |-> IF a.frames = 0 THEN Absent ELSE MathRound(a.sum, a.frames),
     notes |-> Absent]

----------------------------------------------------------------------------
(* The server: authMiddleware (server/auth.ts) and registerRoutes          *)

NoUser == 0
UserIds == {1, 2}

Route(method, path, middleware) ==
    [method |-> method, path |-> path, middleware |-> middleware]

\* registerRoutes: every app.METHOD(path, ...) call with the middleware it names
Routes ==
    {Route("POST", "/api/register", << >>),
     Route("POST", "/api/login", << >>),
     Route("GET", "/api/user", <<"authMiddleware">>),
     Route("POST", "/api/exercise-sessions", <<"authMiddleware">>),
     Route("GET", "/api/exercise-sessions", <<"authMiddleware">>),
     Route("POST", "/api/mood-entries", <<"authMiddleware">>),
     Route("GET", "/api/mood-entries", <<"authMiddleware">>),
     Route("GET", "/api/mood-entries/latest", <<"authMiddleware">>),
     Route("POST", "/api/chat/conversations", <<"authMiddleware">>),
     Route("PUT", "/api/chat/conversations/:id", <<"authMiddleware">>),
     Route("GET", "/api/chat/conversations", <<"authMiddleware">>),
     Route("GET", "/api/chat/conversations/latest", <<"authMiddleware">>),
     Route("GET", "/api/progress", <<"authMiddleware">>),
     Route("PUT", "/api/progress", <<"authMiddleware">>),
     Route("POST", "/api/appointments", <<"authMiddleware">>),
     Route("GET", "/api/appointments", <<"authMiddleware">>),
     Route("PUT", "/api/appointments/:id/status", <<"authMiddleware">>)}

PostExerciseSession == Route("POST", "/api/exercise-sessions", <<"authMiddleware">>)
PostMoodEntry == Route("POST", "/api/mood-entries", <<"authMiddleware">>)
PostChatConversation == Route("POST", "/api/chat/conversations", <<"authMiddleware">>)
PostAppointment == Route("POST", "/api/appointments", <<"authMiddleware">>)

\* A token: "signed" is signed with JWT_SECRET and not expired; the others make
\* jwt.verify throw.
Tokens ==
    {[userId |-> u, kind |-> k] : u \in UserIds, k \in {"signed", "expired", "forged"}}
    \cup {[userId |-> NoUser, kind |-> "garbage"]}

\* the Authorization header: none, or "<scheme> <token>"
NoHeader == [scheme |-> "none", token |-> [userId |-> NoUser, kind |-> "garbage"]]

Headers ==
    {NoHeader, [scheme |-> "Basic", token |-> [userId |-> 1, kind |-> "signed"]]}
    \cup {[scheme |-> "Bearer", token |-> t] : t \in Tokens}

\* a body without any field
EmptyBody == finalize(NewAggregator(NoType), 0)

\* the bodies posted to /api/exercise-sessions: the metrics of a session without
\* frames, of a session of one frame, the same carrying a userId, and no field
SessionBodies ==
    {finalize(NewAggregator("kegel"), 5),
     finalize(onFrame(NewAggregator("kegel"), 90, TRUE, 2), 5),
     [finalize(NewAggregator("kegel"), 5) EXCEPT !.userId = 2],
     EmptyBody}

\* the bodies posted to /api/mood-entries, /api/chat/conversations and
\* /api/appointments: with and without a userId, with and without the columns
\* that are notNull (mood; messages, here their number; providerName,
\* appointmentType and scheduledAt)
MoodBodies ==
    {[userId |-> u, mood |-> m, energy |-> Absent, anxiety |-> 3, notes |-> Absent] :
        u \in {Absent, 2}, m \in {Absent, 7}}

ConversationBodies ==
    {[userId |-> u, messages |-> m] : u \in {Absent, 2}, m \in {Absent, 1}}

AppointmentBodies ==
    {[userId |-> u, providerName |-> n, appointmentType |-> "checkup",
      scheduledAt |-> 9, status |-> Absent, notes |-> Absent] :
        u \in {Absent, 2}, n \in {"", "Dr. Lan"}}

Bodies(route) ==
    IF route = PostExerciseSession THEN SessionBodies
    ELSE IF route = PostMoodEntry THEN MoodBodies
    ELSE IF route = PostChatConversation THEN ConversationBodies
    ELSE IF route = PostAppointment THEN AppointmentBodies
    ELSE {EmptyBody}

\* no record was handed to storage
NoRow == [userId |-> Absent]

NoRoute == Route("", "", << >>)

NoRequest ==
    [pc |-> "none", route |-> NoRoute, header |-> NoHeader, body |-> EmptyBody,
     user |-> NoUser, status |-> 0, handled |-> FALSE, handed |-> NoRow]

\* the emails of the users table; the users a server starts with have the first
EmailList == <<"ana@example.com", "bea@example.com", "cleo@example.com">>

\* a register request that is not there
NoRegister == [pc |-> "none", email |-> "", status |-> 0, message |-> "", created |-> NoUser]

\* users: the ids of the users table, emails: its email column; req: the request
\* served through the routes; registers: the register requests in flight
Server(users) ==
    [users |-> users, emails |-> [u \in users |-> EmailList[u]], sessions |-> << >>,
     req |-> NoRequest, registers |-> [s \in 1..MaxRequests |-> NoRegister]]

\* res.status(code).json(...): the response is sent, nothing follows
Respond(req, code) == [req EXCEPT !.status = code, !.pc = "done"]

\* jwt.verify(token, JWT_SECRET): the decoded userId, NoUser when it throws
jwtVerify(token) == IF token.kind = "signed" THEN token.userId ELSE NoUser

\* mutant: the decoded userId is trusted without looking the user up
authMiddleware_trustsToken(req, users) ==
    IF req.header.scheme # "Bearer" THEN Respond(req, 401)
    ELSE IF jwtVerify(req.header.token) = NoUser THEN Respond(req, 401)
    ELSE [req EXCEPT !.user = jwtVerify(req.header.token), !.pc = "handler"]

authMiddleware(req, users) ==
    IF req.header.scheme # "Bearer" THEN Respond(req, 401)
    ELSE LET userId == jwtVerify(req.header.token)
         IN  IF userId = NoUser THEN Respond(req, 401)
             ELSE IF userId \notin users THEN Respond(req, 401)
             ELSE [req EXCEPT !.user = userId, !.pc = "handler"]

\* mutant: the columns accuracy and posture_score are declared notNull
insertExerciseSessionSchema_notNull(data) ==
    /\ data.userId # Absent
    /\ data.exerciseType # NoType
    /\ data.accuracy # Absent
    /\ data.postureScore # Absent

\* insertExerciseSessionSchema.parse succeeds: userId and exerciseType are
\* notNull and so required, the other columns are nullable and so optional
\* (every measure of the bodies modelled is a number or absent)
insertExerciseSessionSchema(data) ==
    /\ data.userId # Absent
    /\ data.exerciseType # NoType

\* insertMoodEntrySchema, insertChatConversationSchema, insertAppointmentSchema:
\* parse succeeds when the notNull columns without a default are there
insertSchema(route, data) ==
    /\ data.userId # Absent
    /\ route = PostMoodEntry => data.mood # Absent
    /\ route = PostChatConversation => data.messages # Absent
    /\ route = PostAppointment =>
          (data.providerName # "" /\ data.appointmentType # "" /\ data.scheduledAt # Absent)

\* mutant: { userId, ...req.body }, a userId of the body wins
withUserId_bodyWins(body, userId) ==
    IF body.userId # Absent THEN body ELSE [body EXCEPT !.userId = userId]

\* { ...req.body, userId }
withUserId(body, userId) == [body EXCEPT !.userId = userId]

\* storage.createExerciseSession: the row inserted, with its serial id; columns
\* not given are null
createExerciseSession(sessions, data) == [id |-> Len(sessions) + 1] @@ data

\* what the handlers that are not modelled further can answer
HandlerStatus(route) ==
    IF route.path = "/api/register" THEN {201, 400, 500}
    ELSE IF route.path = "/api/login" THEN {200, 400, 401, 500}
    ELSE {200, 400, 404, 500}

\* a request arrives and Express finds its route
receive(route, header, body) ==
    /\ server.req.pc = "none"
    /\ Len(server.sessions) < MaxSessions
    /\ server' = [server EXCEPT !.req =
                     [NoRequest EXCEPT !.pc = IF route.middleware = << >> THEN "handler"
                                              ELSE "middleware",
                                       !.route = route, !.header = header, !.body = body]]
    /\ UNCHANGED <<component, isActive, repCount, pendingRep, previousPoseRef,
                   smoothingFactor, effects, frame, mon>>

\* Express runs the route's middleware
runMiddleware ==
    /\ server.req.pc = "middleware"
    /\ server' = [server EXCEPT !.req = authMiddleware(@, server.users)]
    /\ UNCHANGED <<component, isActive, repCount, pendingRep, previousPoseRef,
                   smoothingFactor, effects, frame, mon>>

\* the handler of POST /api/exercise-sessions
postExerciseSession ==
    /\ server.req.pc = "handler"
    /\ server.req.route = PostExerciseSession
    /\ LET sessionData == withUserId(server.req.body, server.req.user)
       IN  IF insertExerciseSessionSchema(sessionData)
           THEN server' = [server EXCEPT
                             !.sessions = Append(@, createExerciseSession(@, sessionData)),
                             !.req = [Respond(@, 200) EXCEPT !.handled = TRUE,
                                                             !.handed = sessionData]]
           ELSE server' = [server EXCEPT
                             !.req = [Respond(@, 400) EXCEPT !.handled = TRUE]]
    /\ UNCHANGED <<component, isActive, repCount, pendingRep, previousPoseRef,
                   smoothingFactor, effects, frame, mon>>

\* the handlers of POST /api/mood-entries, /api/chat/conversations and
\* /api/appointments: the parsed record is handed to storage.create...
postRecord ==
    /\ server.req.pc = "handler"
    /\ server.req.route \in {PostMoodEntry, PostChatConversation, PostAppointment}
    /\ LET data == withUserId(server.req.body, server.req.user)
       IN  IF insertSchema(server.req.route, data)
           THEN server' = [server EXCEPT
                             !.req = [Respond(@, 200) EXCEPT !.handled = TRUE,
                                                             !.handed = data]]
           ELSE server' = [server EXCEPT
                             !.req = [Respond(@, 400) EXCEPT !.handled = TRUE]]
    /\ UNCHANGED <<component, isActive, repCount, pendingRep, previousPoseRef,
                   smoothingFactor, effects, frame, mon>>

\* the handler of any other route
handle ==
    /\ server.req.pc = "handler"
    /\ server.req.route \notin {PostExerciseSession, PostMoodEntry, PostChatConversation,
                                PostAppointment}
    /\ \E code \in HandlerStatus(server.req.route) :
          server' = [server EXCEPT !.req = [Respond(@, code) EXCEPT !.handled = TRUE]]
    /\ UNCHANGED <<component, isActive, repCount, pendingRep, previousPoseRef,
                   smoothingFactor, effects, frame, mon>>

\* the response is sent and the connection is free for the next request
finish ==
    /\ server.req.pc = "done"
    /\ server' = [server EXCEPT !.req = NoRequest]
    /\ UNCHANGED <<component, isActive, repCount, pendingRep, previousPoseRef,
                   smoothingFactor, effects, frame, mon>>

----------------------------------------------------------------------------
(* register (server/auth.ts), one step per await; several requests may be  *)
(* in flight, each in a slot s                                             *)

\* the bodies posted to /api/register: an email of EmailList, or no email
RegisterBodies ==
    {[email |-> EmailList[i], password |-> "secret"] : i \in 1..Len(EmailList)}
    \cup {[email |-> "", password |-> "secret"]}

\* registerUserSchema.parse succeeds: email and password are notNull
registerUserSchema(body) == body.email # "" /\ body.password # ""

\* storage.getUserByEmail: whether a user has the email
getUserByEmail(srv, email) == \E u \in srv.users : srv.emails[u] = email

\* the users table refuses a second row with an email: email is unique()
EmailTaken(srv, email) == \E u \in srv.users : srv.emails[u] = email

Answer(r, code, message) == [r EXCEPT !.pc = "done", !.status = code, !.message = message]

\* register up to its first await: the body is parsed, getUserByEmail is called
register(s, body) ==
    /\ server.registers[s].pc = "none"
    /\ server' = [server EXCEPT !.registers[s] =
                     IF registerUserSchema(body)
                     THEN [NoRegister EXCEPT !.pc = "getUserByEmail", !.email = body.email]
                     ELSE Answer([NoRegister EXCEPT !.email = body.email],
                                 400, "Invalid user data")]
    /\ UNCHANGED <<component, isActive, repCount, pendingRep, previousPoseRef,
                   smoothingFactor, effects, frame, mon>>

\* getUserByEmail resolves: an existing user is answered 400, else the password
\* is hashed and createUser is called
registerChecked(s) ==
    /\ server.registers[s].pc = "getUserByEmail"
    /\ server' = [server EXCEPT !.registers[s] =
                     IF getUserByEmail(server, @.email)
                     THEN Answer(@, 400, "User already exists")
                     ELSE [@ EXCEPT !.pc = "createUser"]]
    /\ UNCHANGED <<component, isActive, repCount, pendingRep, previousPoseRef,
                   smoothingFactor, effects, frame, mon>>

\* createUser resolves with the new user (201 and a token), or rejects because
\* the email is taken by now: the catch answers 500
registerCreated(s) ==
    /\ server.registers[s].pc = "createUser"
    /\ LET r == server.registers[s]
           id == Cardinality(server.users) + 1
       IN  IF EmailTaken(server, r.email)
           THEN server' = [server EXCEPT !.registers[s] =
                              Answer(r, 500, "Failed to register user")]
           ELSE server' = [server EXCEPT
                              !.users = @ \cup {id},
                              !.emails = (id :> r.email) @@ @,
                              !.registers[s] =
                                  [Answer(r, 201, "User created successfully")
                                      EXCEPT !.created = id]]
    /\ UNCHANGED <<component, isActive, repCount, pendingRep, previousPoseRef,
                   smoothingFactor, effects, frame, mon>>

\* the response is sent
registerDone(s) ==
    /\ server.registers[s].pc = "done"
    /\ server' = [server EXCEPT !.registers[s] = NoRegister]
    /\ UNCHANGED <<component, isActive, repCount, pendingRep, previousPoseRef,
                   smoothingFactor, effects, frame, mon>>

----------------------------------------------------------------------------
(* Specifications                                                          *)

Mounted(comp, active, alpha, record) ==
    /\ component = comp
    /\ isActive = active
    /\ repCount = 0
    /\ pendingRep = NoRep
    /\ previousPoseRef = NoPose
    /\ smoothingFactor = alpha
    /\ effects = IF active THEN SetToBag({NewEffect(0)}) ELSE EmptyBag
    /\ frame = NoFrame
    /\ mon = NoMon(record)
    /\ server = Server({})

\* the steps of either component that take no pose
Lifecycle ==
    \/ render
    \/ \E e \in Closures : loadDetector(e)
    \/ \E e \in Closures : loadDetectorFails(e)
    \/ \E e \in Closures : animationFrame(e)
    \/ \E e \in Closures : detectNoPose(e)
    \/ \E e \in Closures : estimateRejects(e)

Frames(poses) == \E e \in Closures, p \in poses, random \in BOOLEAN : detect(e, p, random)

\* camera/PoseDetection.tsx under a parent that starts and stops sessions
Init == \E active \in BOOLEAN : Mounted("camera", active, DefaultSmoothing, "none")

Next == setActive \/ Lifecycle \/ Frames(LifecyclePoses)

Spec == Init /\ [][Next]_vars

\* camera/PoseDetection.tsx in one session that is never stopped, fed poses in
\* which every joint but the wrists varies
InitSmooth == Mounted("camera", TRUE, DefaultSmoothing, "none")

NextSmooth == Lifecycle \/ Frames(SmoothFamily)

SpecSmooth == InitSmooth /\ [][NextSmooth]_vars

\* the same session fed poses in which the wrists vary
InitRep == Mounted("camera", TRUE, DefaultSmoothing, "trajectory")

NextRep == Lifecycle \/ Frames(RepFamily)

SpecRep == InitRep /\ [][NextRep]_vars

\* smoothPoseMovement under every smoothing factor a caller may configure
InitAlpha == \E alpha \in AlphaChoices : Mounted("camera", TRUE, alpha, "first")

NextAlpha == Lifecycle \/ Frames(AlphaPoses)

SpecAlpha == InitAlpha /\ [][NextAlpha]_vars

\* the same session fed poses without confidence and poses that differ in one
\* keypoint's confidence
InitScore == Mounted("camera", TRUE, DefaultSmoothing, "zero")

NextScore == Lifecycle \/ Frames(ScoreFamily)

SpecScore == InitScore /\ [][NextScore]_vars

\* camera/PoseDetection.tsx under a parent that stops and restarts sessions, fed
\* confident poses that differ in position
InitRestart == Mounted("camera", TRUE, DefaultSmoothing, "session")

NextRestart == setActive \/ Lifecycle \/ Frames(RestartPoses)

SpecRestart == InitRestart /\ [][NextRestart]_vars

\* the component of part_002 as PosePage mounts it: isActive = {true}
InitPart002 == Mounted("part002", TRUE, DefaultSmoothing, "none")

NextPart002 ==
    \/ Lifecycle
    \/ \E e \in Closures, p \in Part002Poses, random \in BOOLEAN :
          detect_part002(e, p, random)

SpecPart002 == InitPart002 /\ [][NextPart002]_vars

\* the server with one registered user, the component mounted but not active
InitServer ==
    /\ component = "camera"
    /\ isActive = FALSE
    /\ repCount = 0
    /\ pendingRep = NoRep
    /\ previousPoseRef = NoPose
    /\ smoothingFactor = DefaultSmoothing
    /\ effects = EmptyBag
    /\ frame = NoFrame
    /\ mon = NoMon("none")
    /\ server = Server({1})

NextServer ==
    \/ \E route \in Routes, header \in Headers :
          \E body \in Bodies(route) : receive(route, header, body)
    \/ runMiddleware
    \/ postExerciseSession
    \/ postRecord
    \/ handle
    \/ finish

SpecServer == InitServer /\ [][NextServer]_vars

\* the server with one registered user, taking register requests
NextRegister ==
    \/ \E s \in 1..MaxRequests, body \in RegisterBodies : register(s, body)
    \/ \E s \in 1..MaxRequests : registerChecked(s)
    \/ \E s \in 1..MaxRequests : registerCreated(s)
    \/ \E s \in 1..MaxRequests : registerDone(s)

SpecRegister == InitServer /\ [][NextRegister]_vars

----------------------------------------------------------------------------
(* Properties                                                              *)

Processing == frame # NoFrame

\* both keypoints at index i exist and have confidence strictly above 0.3
BothConfident(i) ==
    /\ i <= Len(frame.prev)
    /\ frame.cur[i].score > SmoothMinScore
    /\ frame.prev[i].score > SmoothMinScore

\* out is prev * alpha + cur * (1 - alpha), alpha in tenths
IsBlend(out, prev, cur) ==
    AlphaDen * out = prev * smoothingFactor + cur * (AlphaDen - smoothingFactor)

\* C1: in every frame after the first, a keypoint whose current and previous
\* confidence are both strictly above 0.3 has x and y equal to
\* previous * alpha + current * (1 - alpha); every other keypoint of the output
\* is the current keypoint unchanged.
C1_SmoothingRule ==
    (Processing /\ frame.prev # NoPose) =>
        /\ Len(frame.out) = Len(frame.cur)
        /\ \A i \in 1..Len(frame.cur) :
              IF BothConfident(i)
              THEN /\ IsBlend(frame.out[i].x, frame.prev[i].x, frame.cur[i].x)
                   /\ IsBlend(frame.out[i].y, frame.prev[i].y, frame.cur[i].y)
              ELSE frame.out[i] = frame.cur[i]

\* a frame after the first in which one keypoint is moved by the blend and
\* another one passes through
C1_Witness ==
    /\ Processing /\ frame.prev # NoPose
    /\ \E i \in 1..Len(frame.cur) :
          BothConfident(i) /\ frame.out[i].x # frame.cur[i].x
                           /\ frame.out[i].y # frame.cur[i].y
    /\ \E j \in 1..Len(frame.cur) : ~BothConfident(j) /\ frame.out[j] = frame.cur[j]

\* C2: the first frame of a session (no previous pose held) is returned
\* unchanged, and afterwards the previous-pose reference holds that pose.
C2_FirstFrame ==
    (Processing /\ frame.prev = NoPose) =>
        /\ frame.out = frame.cur
        /\ previousPoseRef = frame.cur

\* the first frame has been processed and a pose is held
C2_Witness ==
    /\ Processing /\ frame.prev = NoPose
    /\ frame.cur \in SmoothFamily
    /\ previousPoseRef # NoPose

C4_ConfidenceOfCurrent ==
    Processing =>
        /\ Len(frame.out) = Len(frame.cur)
        /\ \A i \in 1..Len(frame.cur) : frame.out[i].score = frame.cur[i].score

\* a blended keypoint whose previous confidence differs from the current one
C4_Witness ==
    /\ Processing /\ frame.prev # NoPose
    /\ \E i \in 1..Len(frame.cur) :
          /\ BothConfident(i)
          /\ frame.out[i].x # frame.cur[i].x
          /\ frame.prev[i].score # frame.cur[i].score
          /\ frame.out[i].score = frame.cur[i].score

\* C5: a frame whose pose and previous pose differ in their number of keypoints
\* produces no smoothed pose, no posture score and no rep count.
C5_MismatchFailsFast ==
    (Processing /\ frame.prev # NoPose /\ Len(frame.cur) # Len(frame.prev)) =>
        /\ frame.out = NoPose
        /\ frame.posture = NoScore
        /\ frame.repCall = NoRep

\* r is x = num / den rounded to the nearest integer, halves upwards
IsRounded(r, num, den) == 2 * den * r <= 2 * num + den /\ 2 * num + den < 2 * den * (r + 1)

\* C6: the value given to onPostureUpdate is round(mean confidence * 100), an
\* integer of 0 .. 100.
C6_PostureScore ==
    Processing =>
        /\ frame.posture \in 0..100
        /\ IsRounded(frame.posture, SumScore(frame.cur, Len(frame.cur)), Len(frame.cur))

\* the outcome of one frame given to closure i: whether onRepCount is called
Counts(e, p, called) ==
    \E random \in BOOLEAN :
        /\ \/ detect(e, p, random)
           \/ detect_part002(e, p, random)
        /\ (frame'.repCall # NoRep) = called

\* C7: the rep count is a function of the frames: no state has a frame that, fed
\* to the same closure, in one run calls onRepCount and in another does not.
C7_Deterministic ==
    \A e \in Closures : \A p \in RepFamily :
        ~(ENABLED Counts(e, p, TRUE) /\ ENABLED Counts(e, p, FALSE))

\* C8: a frame in which a wrist has a confidence not above the threshold neither
\* changes the rep count nor calls onRepCount.
C8_LowConfidenceNeverCounts ==
    (Processing /\ ~wristsConfident(frame.cur)) => frame.repCall = NoRep

\* C9: once the trajectory has gone above the upper and then below the lower
\* threshold exactly once, both wrists at confidence 0.9 in every frame, exactly
\* one rep has been reported.
C9_OneRepPerCycle ==
    (mon.conf90 /\ mon.raw.cycles = 1 /\ mon.smooth.cycles = 1) => mon.events = 1

\* C10: while every trajectory value of the session has been strictly between
\* the lower and the upper threshold, no rep has been counted, whatever the
\* confidences.
C10_NoCountInsideBand ==
    mon.inBand => (mon.events = 0 /\ Committed = 0)

\* C11: any two rep events are at least one cooldown apart.  Two full cycles
\* complete at least two frames apart, so a cooldown that can separate them
\* lasts longer than one frame interval: the frame that follows a frame in
\* which a rep was reported reports none.
C11_CooldownBetweenReps ==
    [][mon'.events > mon.events => frame.repCall = NoRep]_vars

\* C12: every value given to onRepCount is at least the value given to it
\* before, under every interleaving of frames, renders, clean-ups and detect
\* calls still in flight; one frame gives it at most one value.
C12_RepCountMonotone ==
    [][(pendingRep' # NoRep /\ pendingRep' # pendingRep) => pendingRep' >= Committed]_vars

\* C13: while every frame of the session has confidence 0 on every keypoint,
\* every posture score reported is 0, the rep count stays 0, onRepCount has not
\* been called, and the detect loop is still running (no error ended it).
C13_ZeroConfidence ==
    (Processing /\ mon.zero) =>
        /\ frame.posture = 0
        /\ frame.repCall = NoRep
        /\ mon.events = 0
        /\ Committed = 0
        /\ \E e \in Closures : e.pc \in {"estimate", "raf"}

\* two different frames without any confidence have been processed
C13_Witness ==
    /\ Processing /\ mon.zero
    /\ frame.prev # NoPose /\ frame.prev # frame.cur
    /\ AllZero(frame.prev) /\ AllZero(frame.cur)
    /\ frame.posture = 0

\* q is p with the confidence of exactly one keypoint raised
RaisesOne(p, q) ==
    /\ Len(p) = Len(q)
    /\ \E i \in 1..Len(p) :
          /\ q[i].score > p[i].score
          /\ q[i].x = p[i].x /\ q[i].y = p[i].y
          /\ \A j \in 1..Len(p) : j # i => q[j] = p[j]

\* C14: a frame whose pose is the previous frame's pose with one keypoint's
\* confidence raised is given a posture score that is not lower than the
\* previous frame's.
C14_ScoreMonotone ==
    [][RaisesOne(previousPoseRef, previousPoseRef') => frame'.posture >= frame.posture]_vars

\* one keypoint's confidence was raised between two frames and the score rose
C14_Witness ==
    /\ Processing /\ frame.prev # NoPose
    /\ RaisesOne(frame.prev, frame.cur)
    /\ frame.posture > postureScore(frame.prev)

\* C15: while the session is stopped no frame is processed: no step gives
\* onPostureUpdate or onRepCount a value or writes the previous pose, also when
\* a detect call was awaiting the estimator at the stop.
C15_NoFrameAfterStop ==
    [][~isActive => /\ frame' = frame
                    /\ previousPoseRef' = previousPoseRef
                    /\ pendingRep' \in {pendingRep, NoRep}]_vars

\* a detection loop that runs: its detector is live and it awaits the estimator
\* or an animation frame
Running(e) == e.pc \in {"estimate", "raf"} /\ e.detector = "live"

\* C16: at most one detection loop runs at any moment, whatever activations,
\* deactivations and effect re-runs came before, also after a clean-up that ran
\* while loadDetector was awaiting the detector.
C16_OneDetectLoop ==
    \A e \in Closures :
        Running(e) => /\ CopiesIn(e, effects) = 1
                      /\ \A f \in Closures : Running(f) => f = e

\* C17: once the session is stopped its metrics are final: while it stays
\* stopped, the rep count and the posture score the component has reported do
\* not change (a frame that arrives after the stop is rejected).
C17_FinalMetrics ==
    [][(~isActive /\ ~isActive') =>
          (Committed' = Committed /\ frame'.posture = frame.posture)]_vars

\* C20: each session starts fresh: the first frame a session's loop processes
\* is output unsmoothed, and the first rep it reports is 1, also in a session
\* started after an earlier one was stopped.
C20_FreshSession ==
    /\ mon.first # NoPose => mon.firstRaw
    /\ mon.firstRep # NoRep => mon.firstRep = 1

\* the metrics of a session finalized without a frame
ZeroFrameMetrics == finalize(NewAggregator("kegel"), 5)

Authentic(header, users) ==
    /\ header.scheme = "Bearer"
    /\ header.token.kind = "signed"
    /\ header.token.userId \in users

Public(route) ==
    route.method = "POST" /\ route.path \in {"/api/register", "/api/login"}

\* C19: on every route but POST /api/register and POST /api/login the handler
\* runs only for a request whose Bearer token was verified and whose user was
\* found, as that user; any other request is answered 401 without the handler.
C19_AuthBeforeHandler ==
    (server.req.pc # "none" /\ ~Public(server.req.route)) =>
        /\ server.req.pc = "handler" \/ server.req.handled =>
              /\ Authentic(server.req.header, server.users)
              /\ server.req.user = server.req.header.token.userId
        /\ (server.req.pc = "done" /\ ~Authentic(server.req.header, server.users)) =>
              (server.req.status = 401 /\ ~server.req.handled)

\* a token of a user that does not exist was refused on a protected route
C19_Witness ==
    /\ server.req.pc = "done" /\ ~Public(server.req.route)
    /\ server.req.header.scheme = "Bearer"
    /\ server.req.header.token.kind = "signed"
    /\ server.req.header.token.userId \notin server.users
    /\ server.req.status = 401 /\ ~server.req.handled

\* C21: no two users have the same email, and a register request that ends
\* without having created its user, for an email that belongs to a user (also
\* one created by a concurrent request after this one's existence check), was
\* answered 400 'User already exists'.
C21_DuplicateEmailRefused ==
    /\ \A u, v \in server.users : server.emails[u] = server.emails[v] => u = v
    /\ \A s \in 1..MaxRequests :
          LET r == server.registers[s]
          IN  (r.pc = "done" /\ r.created = NoUser /\ EmailTaken(server, r.email)) =>
                 (r.status = 400 /\ r.message = "User already exists")

\* C22: the record that POST /api/exercise-sessions, /api/mood-entries,
\* /api/chat/conversations or /api/appointments hands to storage has the userId
\* of the authenticated user, whatever userId the body carries; a request that
\* is refused hands nothing to storage.
C22_RecordOwner ==
    (/\ server.req.pc = "done"
     /\ server.req.route \in {PostExerciseSession, PostMoodEntry, PostChatConversation,
                              PostAppointment}) =>
        IF server.req.status = 200
        THEN /\ server.req.user = server.req.header.token.userId
             /\ server.req.user \in server.users
             /\ server.req.handed.userId = server.req.user
             /\ server.req.route = PostExerciseSession =>
                   server.sessions[Len(server.sessions)].userId = server.req.user
        ELSE server.req.handed = NoRow

\* a record was handed to storage for a body that carried another user's id
C22_Witness ==
    /\ server.req.pc = "done" /\ server.req.status = 200
    /\ server.req.route = PostAppointment
    /\ server.req.body.userId = 2
    /\ server.req.handed.userId = 1

====
